---- MODULE Spec2Model ----
(***************************************************************************)
(* Model of personal_finance_design.py: Account and its two variants,      *)
(* the three Transaction variants, and BudgetManager.                      *)
(*                                                                         *)
(* Money is modelled with integers.  A raised ValueError is modelled by    *)
(* its message; "ok" stands for a call that returned normally.  The        *)
(* variable `last` records the most recent call and what it raised.        *)
(***************************************************************************)
EXTENDS Integers, Sequences, FiniteSets, TLC

VARIABLES kind, balance, password, min_balance, month_limit, monthly_withdraw,
          transactions, txs, category_limits, spending, last

acctVars == <<kind, balance, password, min_balance, month_limit, monthly_withdraw,
              transactions, txs>>
budgetVars == <<category_limits, spending>>
vars == <<kind, balance, password, min_balance, month_limit, monthly_withdraw,
          transactions, txs, category_limits, spending, last>>

----------------------------------------------------------------------------
(* Bounds of the model *)

MaxBalance == 3
MaxHist == 2
MaxSpend == 3

(* Identities of the account and transaction objects the caller constructs, *)
(* and the values it passes                                                 *)
Accounts == {1, 2}
TxIds == {1}
Amounts == {-1, 0, 1, 2}
InitBalances == {1, 3}
MinBalances == {-1, 2}
MonthLimits == {-1, 2}
Categories == {"Food", "Travel"}
Limits == {1, 2}
Passwords == {"pass1", "pass2"}
InitPassword == "pass1"

None == "None"
NoTx == [type |-> "None", account |-> 0, to_account |-> 0, amount |-> 0]

----------------------------------------------------------------------------
(* Messages of the ValueErrors the program raises *)

Ok == "ok"
ErrAmount == "Amount must be positive"
ErrInsufficient == "Insufficient balance"
ErrMinBalance == "Minimum balance rule violated"
ErrMonthLimit == "Monthly limit exceeded"
ErrCategory == "Category not found"

----------------------------------------------------------------------------
(* Construction *)

AccountConfigs ==
    {[kind |-> "Account", balance |-> b, min_balance |-> None, month_limit |-> None] :
        b \in InitBalances}
    \cup {[kind |-> "SavingAccount", balance |-> b, min_balance |-> m, month_limit |-> None] :
            b \in InitBalances, m \in MinBalances}
    \cup {[kind |-> "ExpensesAccount", balance |-> b, min_balance |-> None, month_limit |-> l] :
            b \in InitBalances, l \in MonthLimits}

Call(op, target, amount, err, warnings) ==
    [op |-> op, target |-> target, amount |-> amount, err |-> err, warnings |-> warnings]

InitAccounts ==
    \E cfg \in [Accounts -> AccountConfigs] :
        /\ kind = [a \in Accounts |-> cfg[a].kind]
        /\ balance = [a \in Accounts |-> cfg[a].balance]
        /\ password = [a \in Accounts |-> InitPassword]
        /\ min_balance = [a \in Accounts |-> cfg[a].min_balance]
        /\ month_limit = [a \in Accounts |-> cfg[a].month_limit]
        /\ monthly_withdraw =
              [a \in Accounts |-> IF cfg[a].kind = "ExpensesAccount" THEN 0 ELSE None]
        /\ transactions = [a \in Accounts |-> <<>>]
        /\ txs = [t \in TxIds |-> NoTx]

InitBudget ==
    /\ category_limits = <<>>
    /\ spending = <<>>

Init ==
    /\ InitAccounts
    /\ InitBudget
    /\ last = Call("init", 0, 0, Ok, 0)

----------------------------------------------------------------------------
(* Account.deposit, Account.withdraw and the overriding withdraws:         *)
(* the error each raises in the current state, "ok" when it returns.       *)

(* Seeded fault: the amount check of deposit lets zero through *)
DepositErr_ZeroAllowed(amount) ==
    IF amount < 0 THEN ErrAmount ELSE Ok

(* Seeded fault: deposit refuses amounts above 1 *)
DepositErr_LargeRefused(amount) ==
    IF amount <= 0 \/ amount > 1 THEN ErrAmount ELSE Ok

DepositErr(amount) ==
    IF amount <= 0 THEN ErrAmount ELSE Ok

(* Seeded fault: withdraw does not compare the amount with the balance *)
AccountWithdrawErr_NoSufficiency(bal, amount) ==
    IF amount <= 0 THEN ErrAmount ELSE Ok

(* Seeded fault: withdraw refuses to take the whole balance *)
AccountWithdrawErr_WholeBalanceRefused(bal, amount) ==
    IF amount <= 0 THEN ErrAmount
    ELSE IF amount >= bal THEN ErrInsufficient
    ELSE Ok

AccountWithdrawErr(bal, amount) ==
    IF amount <= 0 THEN ErrAmount
    ELSE IF amount > bal THEN ErrInsufficient
    ELSE Ok

(* Seeded faults of SavingAccount.withdraw: the floor check forgets the    *)
(* amount; the base checks run before the floor check; the floor itself    *)
(* is refused                                                              *)
SavingWithdrawErr_IgnoresAmount(bal, floor, amount) ==
    IF bal < floor THEN ErrMinBalance
    ELSE AccountWithdrawErr(bal, amount)

SavingWithdrawErr_BaseFirst(bal, floor, amount) ==
    IF AccountWithdrawErr(bal, amount) # Ok THEN AccountWithdrawErr(bal, amount)
    ELSE IF bal - amount < floor THEN ErrMinBalance
    ELSE Ok

SavingWithdrawErr_FloorRefused(bal, floor, amount) ==
    IF bal - amount <= floor THEN ErrMinBalance
    ELSE AccountWithdrawErr(bal, amount)

SavingWithdrawErr(bal, floor, amount) ==
    IF bal - amount < floor THEN ErrMinBalance
    ELSE AccountWithdrawErr(bal, amount)

(* Seeded fault: the limit check of ExpensesAccount.withdraw forgets the   *)
(* amount                                                                  *)
ExpensesWithdrawErr_IgnoresAmount(bal, used, limit, amount) ==
    IF used > limit THEN ErrMonthLimit
    ELSE AccountWithdrawErr(bal, amount)

(* Seeded fault: the base checks of ExpensesAccount.withdraw run before    *)
(* the limit check                                                         *)
ExpensesWithdrawErr_BaseFirst(bal, used, limit, amount) ==
    IF AccountWithdrawErr(bal, amount) # Ok THEN AccountWithdrawErr(bal, amount)
    ELSE IF used + amount > limit THEN ErrMonthLimit
    ELSE Ok

ExpensesWithdrawErr(bal, used, limit, amount) ==
    IF used + amount > limit THEN ErrMonthLimit
    ELSE AccountWithdrawErr(bal, amount)

WithdrawErr(a, amount) ==
    IF kind[a] = "SavingAccount"
        THEN SavingWithdrawErr(balance[a], min_balance[a], amount)
    ELSE IF kind[a] = "ExpensesAccount"
        THEN ExpensesWithdrawErr(balance[a], monthly_withdraw[a], month_limit[a], amount)
    ELSE AccountWithdrawErr(balance[a], amount)

(* State after a withdraw that returned normally *)
BalanceAfterWithdraw(a, amount) == [balance EXCEPT ![a] = @ - amount]

(* Seeded fault: ExpensesAccount.withdraw does not count the withdrawal *)
MonthlyAfterWithdraw_NotCounted(a, amount) == monthly_withdraw

MonthlyAfterWithdraw(a, amount) ==
    IF kind[a] = "ExpensesAccount"
        THEN [monthly_withdraw EXCEPT ![a] = @ + amount]
        ELSE monthly_withdraw

(* Seeded fault: deposit assigns the amount instead of adding it *)
BalanceAfterDeposit_Assigns(bal, a, amount) == [bal EXCEPT ![a] = amount]

(* State after a deposit that returned normally *)
BalanceAfterDeposit(bal, a, amount) == [bal EXCEPT ![a] = @ + amount]

(* Seeded fault: add_transaction puts the transaction at the front *)
AddTransaction_Prepends(hist, a, t) == [hist EXCEPT ![a] = <<t>> \o @]

AddTransaction(hist, a, t) == [hist EXCEPT ![a] = Append(@, t)]

----------------------------------------------------------------------------
(* Direct calls on an account *)

Deposit(a, amount) ==
    LET err == DepositErr(amount) IN
    /\ balance' = IF err = Ok THEN BalanceAfterDeposit(balance, a, amount) ELSE balance
    /\ last' = Call("deposit", a, amount, err, 0)
    /\ UNCHANGED <<kind, password, min_balance, month_limit, monthly_withdraw,
                   transactions, txs>>
    /\ UNCHANGED budgetVars

Withdraw(a, amount) ==
    LET err == WithdrawErr(a, amount) IN
    /\ balance' = IF err = Ok THEN BalanceAfterWithdraw(a, amount) ELSE balance
    /\ monthly_withdraw' = IF err = Ok THEN MonthlyAfterWithdraw(a, amount) ELSE monthly_withdraw
    /\ last' = Call("withdraw", a, amount, err, 0)
    /\ UNCHANGED <<kind, password, min_balance, month_limit, transactions, txs>>
    /\ UNCHANGED budgetVars

(* The other methods of Account; `last` keeps what the call returned *)

Returned(op, target, arg, ret) ==
    [op |-> op, target |-> target, amount |-> 0, err |-> Ok, warnings |-> 0,
     arg |-> arg, ret |-> ret]

GetBalance(a) ==
    /\ last' = Returned("get_balance", a, None, balance[a])
    /\ UNCHANGED acctVars
    /\ UNCHANGED budgetVars

AddTransactionCall(a, t) ==
    /\ txs[t] # NoTx
    /\ transactions' = AddTransaction(transactions, a, t)
    /\ last' = Returned("add_transaction", a, t, None)
    /\ UNCHANGED <<kind, password, balance, min_balance, month_limit, monthly_withdraw, txs>>
    /\ UNCHANGED budgetVars

GetTransactions(a) ==
    /\ last' = Returned("get_transactions", a, None, transactions[a])
    /\ UNCHANGED acctVars
    /\ UNCHANGED budgetVars

SetPassword(a, new_password) ==
    /\ password' = [password EXCEPT ![a] = new_password]
    /\ last' = Returned("set_password", a, new_password, None)
    /\ UNCHANGED <<kind, balance, min_balance, month_limit, monthly_withdraw,
                   transactions, txs>>
    /\ UNCHANGED budgetVars

CheckPassword(a, pw) ==
    /\ last' = Returned("check_password", a, pw, password[a] = pw)
    /\ UNCHANGED acctVars
    /\ UNCHANGED budgetVars

----------------------------------------------------------------------------
(* Transactions *)

Created(t) == txs[t] # NoTx

NewTransaction(t, type, a, b, amount) ==
    /\ ~Created(t)
    /\ \A u \in TxIds : u < t => Created(u)
    /\ txs' = [txs EXCEPT ![t] =
                 [type |-> type, account |-> a, to_account |-> b, amount |-> amount]]
    /\ last' = Call("new", t, 0, Ok, 0)
    /\ UNCHANGED <<kind, password, balance, min_balance, month_limit, monthly_withdraw,
                   transactions>>
    /\ UNCHANGED budgetVars

ValidateErr(amount) ==
    IF amount <= 0 THEN ErrAmount ELSE Ok

ProcessIncome(t) ==
    LET a == txs[t].account
        amount == txs[t].amount
        verr == ValidateErr(amount)
        err == IF verr # Ok THEN verr ELSE DepositErr(amount)
    IN
    /\ txs[t].type = "Income"
    /\ balance' = IF err = Ok THEN BalanceAfterDeposit(balance, a, amount) ELSE balance
    /\ transactions' = IF err = Ok THEN AddTransaction(transactions, a, t) ELSE transactions
    /\ last' = Call("process", t, amount, err, 0)
    /\ UNCHANGED <<kind, password, min_balance, month_limit, monthly_withdraw, txs>>
    /\ UNCHANGED budgetVars

ProcessExpense(t) ==
    LET a == txs[t].account
        amount == txs[t].amount
        verr == ValidateErr(amount)
        err == IF verr # Ok THEN verr ELSE WithdrawErr(a, amount)
    IN
    /\ txs[t].type = "Expense"
    /\ balance' = IF err = Ok THEN BalanceAfterWithdraw(a, amount) ELSE balance
    /\ monthly_withdraw' = IF err = Ok THEN MonthlyAfterWithdraw(a, amount) ELSE monthly_withdraw
    /\ transactions' = IF err = Ok THEN AddTransaction(transactions, a, t) ELSE transactions
    /\ last' = Call("process", t, amount, err, 0)
    /\ UNCHANGED <<kind, password, min_balance, month_limit, txs>>
    /\ UNCHANGED budgetVars

(* Seeded fault: the transfer deposits into the destination before it     *)
(* withdraws from the source                                               *)
ProcessTransfer_DepositFirst(t) ==
    LET src == txs[t].account
        dst == txs[t].to_account
        amount == txs[t].amount
        verr == ValidateErr(amount)
        derr == IF verr # Ok THEN verr ELSE DepositErr(amount)
        werr == IF derr # Ok THEN derr ELSE WithdrawErr(src, amount)
        deposited == BalanceAfterDeposit(balance, dst, amount)
        withdrawn == [deposited EXCEPT ![src] = @ - amount]
        recorded == AddTransaction(AddTransaction(transactions, src, t), dst, t)
    IN
    /\ txs[t].type = "Transfer"
    /\ balance' = IF derr # Ok THEN balance
                  ELSE IF werr # Ok THEN deposited
                  ELSE withdrawn
    /\ monthly_withdraw' = IF werr = Ok THEN MonthlyAfterWithdraw(src, amount)
                           ELSE monthly_withdraw
    /\ transactions' = IF werr = Ok THEN recorded ELSE transactions
    /\ last' = Call("process", t, amount, werr, 0)
    /\ UNCHANGED <<kind, password, min_balance, month_limit, txs>>
    /\ UNCHANGED budgetVars

ProcessTransfer(t) ==
    LET src == txs[t].account
        dst == txs[t].to_account
        amount == txs[t].amount
        verr == ValidateErr(amount)
        werr == IF verr # Ok THEN verr ELSE WithdrawErr(src, amount)
        derr == IF werr # Ok THEN werr ELSE DepositErr(amount)
        withdrawn == BalanceAfterWithdraw(src, amount)
        deposited == BalanceAfterDeposit(withdrawn, dst, amount)
        recorded == AddTransaction(AddTransaction(transactions, src, t), dst, t)
    IN
    /\ txs[t].type = "Transfer"
    /\ balance' = IF werr # Ok THEN balance
                  ELSE IF derr # Ok THEN withdrawn
                  ELSE deposited
    /\ monthly_withdraw' = IF werr = Ok THEN MonthlyAfterWithdraw(src, amount)
                           ELSE monthly_withdraw
    /\ transactions' = IF derr = Ok THEN recorded ELSE transactions
    /\ last' = Call("process", t, amount, derr, 0)
    /\ UNCHANGED <<kind, password, min_balance, month_limit, txs>>
    /\ UNCHANGED budgetVars

ProcessTransaction(t) ==
    /\ Created(t)
    /\ \/ ProcessIncome(t)
       \/ ProcessExpense(t)
       \/ ProcessTransfer(t)

----------------------------------------------------------------------------
(* BudgetManager *)

HasCategory(c) == c \in DOMAIN spending

LimitsAfterSet(c, limit) ==
    [k \in DOMAIN category_limits \cup {c} |-> IF k = c THEN limit ELSE category_limits[k]]

(* Seeded fault: set_budget_limit clears the spend of every category *)
SpendingAfterSet_ClearsAll(c) ==
    [k \in DOMAIN spending \cup {c} |-> 0]

SpendingAfterSet(c) ==
    [k \in DOMAIN spending \cup {c} |-> IF k = c THEN 0 ELSE spending[k]]

(* Seeded fault: add_expense assigns the amount instead of adding it *)
SpendingAfterExpense_Assigns(c, amount) == [spending EXCEPT ![c] = amount]

SpendingAfterExpense(c, amount) == [spending EXCEPT ![c] = @ + amount]

(* Seeded fault: the warning is printed only by the call that first takes  *)
(* the spend over the limit                                                *)
BudgetWarnings_FirstCrossingOnly(spent, c) ==
    IF spent[c] > category_limits[c] /\ spending[c] <= category_limits[c] THEN 1 ELSE 0

BudgetWarnings(spent, c) ==
    IF spent[c] > category_limits[c] THEN 1 ELSE 0

SetBudgetLimit(c, limit) ==
    /\ category_limits' = LimitsAfterSet(c, limit)
    /\ spending' = SpendingAfterSet(c)
    /\ last' = Call("set_budget_limit", c, limit, Ok, 0)
    /\ UNCHANGED acctVars

(* Seeded fault: add_expense opens an unknown category instead of raising *)
AddExpense_OpensCategory(c, amount) ==
    /\ spending' = IF HasCategory(c) THEN SpendingAfterExpense(c, amount)
                   ELSE [k \in DOMAIN spending \cup {c} |->
                            IF k = c THEN amount ELSE spending[k]]
    /\ last' = IF HasCategory(c)
                  THEN Call("add_expense", c, amount, Ok,
                            BudgetWarnings(SpendingAfterExpense(c, amount), c))
                  ELSE Call("add_expense", c, amount, Ok, 0)
    /\ UNCHANGED category_limits
    /\ UNCHANGED acctVars

AddExpense(c, amount) ==
    /\ spending' = IF HasCategory(c) THEN SpendingAfterExpense(c, amount) ELSE spending
    /\ last' = IF HasCategory(c)
                  THEN Call("add_expense", c, amount, Ok,
                            BudgetWarnings(SpendingAfterExpense(c, amount), c))
                  ELSE Call("add_expense", c, amount, ErrCategory, 0)
    /\ UNCHANGED category_limits
    /\ UNCHANGED acctVars

GetBudgetStatus ==
    /\ last' = Call("get_budget_status", 0, 0, Ok, 0)
    /\ UNCHANGED budgetVars
    /\ UNCHANGED acctVars

----------------------------------------------------------------------------

(* The exploration stops where a balance or a history would pass its      *)
(* bound; the handlers themselves have no such limit.                      *)
WithinBounds ==
    \A a \in Accounts :
        /\ balance[a] <= MaxBalance
        /\ Len(transactions[a]) <= MaxHist

BudgetWithinBounds ==
    \A c \in DOMAIN spending :
        /\ spending[c] <= MaxSpend
        /\ spending[c] >= -MaxSpend

Next ==
    \/ \E a \in Accounts, amount \in Amounts : Deposit(a, amount) /\ WithinBounds'
    \/ \E a \in Accounts, amount \in Amounts : Withdraw(a, amount)
    \/ \E t \in TxIds, a \in Accounts, amount \in Amounts :
          \/ NewTransaction(t, "Income", a, 0, amount)
          \/ NewTransaction(t, "Expense", a, 0, amount)
          \/ \E b \in Accounts : NewTransaction(t, "Transfer", a, b, amount)
    \/ \E t \in TxIds : ProcessTransaction(t) /\ WithinBounds'

Spec == Init /\ [][Next]_vars

----------------------------------------------------------------------------
(* A caller that deposits an amount and then withdraws the same amount     *)
(* from the same account, over accounts constructed with any balance, a    *)
(* negative one included (the constructors check nothing).  The record of  *)
(* the deposit keeps the balance the account had before it.                *)

RoundTripBalances == {-1, 0, 2}

RoundTripInit ==
    /\ \E cfg \in [Accounts -> AccountConfigs], b \in [Accounts -> RoundTripBalances] :
          /\ kind = [a \in Accounts |-> cfg[a].kind]
          /\ balance = b
          /\ password = [a \in Accounts |-> InitPassword]
          /\ min_balance = [a \in Accounts |-> cfg[a].min_balance]
          /\ month_limit = [a \in Accounts |-> cfg[a].month_limit]
          /\ monthly_withdraw =
                [a \in Accounts |-> IF cfg[a].kind = "ExpensesAccount" THEN 0 ELSE None]
          /\ transactions = [a \in Accounts |-> <<>>]
          /\ txs = [t \in TxIds |-> NoTx]
    /\ InitBudget
    /\ last = Call("init", 0, 0, Ok, 0)

Saved(call, before) ==
    [op |-> call.op, target |-> call.target, amount |-> call.amount,
     err |-> call.err, warnings |-> call.warnings, before |-> before]

RoundTripDeposit(a, amount) ==
    LET err == DepositErr(amount) IN
    /\ balance' = IF err = Ok THEN BalanceAfterDeposit(balance, a, amount) ELSE balance
    /\ last' = Saved(Call("deposit", a, amount, err, 0), balance[a])
    /\ UNCHANGED <<kind, password, min_balance, month_limit, monthly_withdraw,
                   transactions, txs>>
    /\ UNCHANGED budgetVars

RoundTripWithdraw(a, amount) ==
    /\ last.op = "deposit"
    /\ last.target = a
    /\ last.amount = amount
    /\ last.err = Ok
    /\ Withdraw(a, amount)

RoundTripNext ==
    \/ \E a \in Accounts, amount \in Amounts : RoundTripDeposit(a, amount) /\ WithinBounds'
    \/ \E a \in Accounts, amount \in Amounts : RoundTripWithdraw(a, amount)

RoundTripSpec == RoundTripInit /\ [][RoundTripNext]_vars

----------------------------------------------------------------------------
(* The main program: acc1 is a SavingAccount, acc2 an ExpensesAccount; an  *)
(* income and an expense on acc1 and a transfer from acc1 to acc2 are      *)
(* constructed and processed in turn.  An uncaught ValueError ends the     *)
(* program.  The three amounts are drawn from MainAmounts, which holds the *)
(* literals of the source next to other values.                            *)

Acc1Balance == 5000
Acc1MinBalance == 1000
Acc2Balance == 3000
Acc2MonthLimit == 2000
IncomeAmount == 2000
ExpenseAmount == 500
TransferAmount == 1000

MainTxIds == {1, 2, 3}
MainAmounts == {0, ExpenseAmount, TransferAmount, IncomeAmount, 7000}

MainInit ==
    /\ kind = [a \in Accounts |-> IF a = 1 THEN "SavingAccount" ELSE "ExpensesAccount"]
    /\ balance = [a \in Accounts |-> IF a = 1 THEN Acc1Balance ELSE Acc2Balance]
    /\ password = [a \in Accounts |-> IF a = 1 THEN "pass1" ELSE "pass2"]
    /\ min_balance = [a \in Accounts |-> IF a = 1 THEN Acc1MinBalance ELSE None]
    /\ month_limit = [a \in Accounts |-> IF a = 1 THEN None ELSE Acc2MonthLimit]
    /\ monthly_withdraw = [a \in Accounts |-> IF a = 1 THEN None ELSE 0]
    /\ transactions = [a \in Accounts |-> <<>>]
    /\ txs = [t \in MainTxIds |-> NoTx]
    /\ InitBudget
    /\ last = Call("init", 0, 0, Ok, 0)

MainNew(t, amount) ==
    /\ IF t = 1 THEN last.op = "init"
       ELSE last.op = "process" /\ last.target = t - 1 /\ last.err = Ok
    /\ \/ t = 1 /\ NewTransaction(t, "Income", 1, 0, amount)
       \/ t = 2 /\ NewTransaction(t, "Expense", 1, 0, amount)
       \/ t = 3 /\ NewTransaction(t, "Transfer", 1, 2, amount)

MainProcess(t) ==
    /\ last.op = "new"
    /\ last.target = t
    /\ ProcessTransaction(t)

MainNext ==
    \/ \E t \in MainTxIds, amount \in MainAmounts : MainNew(t, amount)
    \/ \E t \in MainTxIds : MainProcess(t)

MainSpec == MainInit /\ [][MainNext]_vars

----------------------------------------------------------------------------
(* Two income or expense transactions on accounts of every variant, so     *)
(* that a history can hold two different transactions.                     *)

HistoryTxIds == {1, 2}

HistoryInit ==
    /\ \E cfg \in [Accounts -> AccountConfigs] :
          /\ kind = [a \in Accounts |-> cfg[a].kind]
          /\ balance = [a \in Accounts |-> cfg[a].balance]
          /\ password = [a \in Accounts |-> InitPassword]
        /\ password = [a \in Accounts |-> InitPassword]
          /\ min_balance = [a \in Accounts |-> cfg[a].min_balance]
          /\ month_limit = [a \in Accounts |-> cfg[a].month_limit]
          /\ monthly_withdraw =
                [a \in Accounts |-> IF cfg[a].kind = "ExpensesAccount" THEN 0 ELSE None]
          /\ transactions = [a \in Accounts |-> <<>>]
    /\ txs = [t \in HistoryTxIds |-> NoTx]
    /\ InitBudget
    /\ last = Call("init", 0, 0, Ok, 0)

HistoryNext ==
    \/ \E t \in HistoryTxIds, a \in Accounts, amount \in Amounts :
          \/ NewTransaction(t, "Income", a, 0, amount)
          \/ NewTransaction(t, "Expense", a, 0, amount)
    \/ \E t \in HistoryTxIds : ProcessTransaction(t) /\ WithinBounds'

HistorySpec == HistoryInit /\ [][HistoryNext]_vars

----------------------------------------------------------------------------
(* Every method of an account next to the transactions.  The methods are  *)
(* called on the first account, which is of any variant; the second, a     *)
(* plain Account, is the other side of the transfers.                      *)

AccessInit ==
    /\ Init
    /\ kind[2] = "Account"
    /\ balance[2] = 1

AccessNext ==
    \/ \E amount \in Amounts : Deposit(1, amount) /\ WithinBounds'
    \/ \E amount \in Amounts : Withdraw(1, amount)
    \/ \E t \in TxIds, amount \in Amounts :
          \/ NewTransaction(t, "Income", 1, 0, amount)
          \/ NewTransaction(t, "Expense", 1, 0, amount)
          \/ \E b \in Accounts : NewTransaction(t, "Transfer", 1, b, amount)
          \/ NewTransaction(t, "Transfer", 2, 1, amount)
    \/ \E t \in TxIds : ProcessTransaction(t) /\ WithinBounds'
    \/ GetBalance(1)
    \/ \E t \in TxIds : AddTransactionCall(1, t) /\ WithinBounds'
    \/ GetTransactions(1)
    \/ \E p \in Passwords : SetPassword(1, p)
    \/ \E p \in Passwords : CheckPassword(1, p)

AccessSpec == AccessInit /\ [][AccessNext]_vars

(* The budget manager has no link to the accounts: it is explored on its   *)
(* own, next to one fixed pair of accounts.                                *)
BudgetInit ==
    /\ Init
    /\ \A a \in Accounts : kind[a] = "Account" /\ balance[a] = 3

BudgetNext ==
    \/ \E c \in Categories, limit \in Limits : SetBudgetLimit(c, limit)
    \/ \E c \in Categories, amount \in Amounts : AddExpense(c, amount) /\ BudgetWithinBounds'
    \/ GetBudgetStatus

BudgetSpec == BudgetInit /\ [][BudgetNext]_vars


----------------------------------------------------------------------------
(* Vocabulary of the properties.  A step is identified by the call that    *)
(* `last` records after it; unprimed variables are the state before the    *)
(* call, primed ones the state after it.                                   *)

Called(op, target) == last'.op = op /\ last'.target = target

Raised == last'.err # Ok

IsHistoryOf(hist, t) == \E i \in 1..Len(hist) : hist[i] = t

Occurrences(hist, t) == Cardinality({i \in 1..Len(hist) : hist[i] = t})

(* The transaction has reached Applied: it is recorded in some history *)
Applied(t) == \E a \in Accounts : IsHistoryOf(transactions[a], t)

(* The withdrawal rules as the specification words them *)
BelowFloor(a, amount) ==
    kind[a] = "SavingAccount" /\ balance[a] - amount < min_balance[a]

OverLimit(a, amount) ==
    kind[a] = "ExpensesAccount" /\ monthly_withdraw[a] + amount > month_limit[a]

WithdrawRejected(a, amount) ==
    \/ amount <= 0
    \/ amount > balance[a]
    \/ BelowFloor(a, amount)
    \/ OverLimit(a, amount)

AccountsUntouched ==
    /\ balance' = balance
    /\ transactions' = transactions
    /\ monthly_withdraw' = monthly_withdraw

AppendedTo(a, t) ==
    /\ Len(transactions'[a]) > Len(transactions[a])
    /\ SubSeq(transactions'[a], 1, Len(transactions[a])) = transactions[a]
    /\ transactions'[a][Len(transactions'[a])] = t

TransferDone(t) ==
    /\ Called("process", t)
    /\ txs[t].type = "Transfer"
    /\ ~Raised

----------------------------------------------------------------------------
(* C1 (as stated): a successful transfer, for every choice of source and   *)
(* destination, leaves the source at its balance minus the amount and the  *)
(* destination at its balance plus the amount, and is appended to the      *)
(* history of both.                                                        *)
C1_TransferAnyPair ==
    [][\A t \in TxIds :
          TransferDone(t) =>
              /\ balance'[txs[t].account] = balance[txs[t].account] - txs[t].amount
              /\ balance'[txs[t].to_account] = balance[txs[t].to_account] + txs[t].amount
              /\ AppendedTo(txs[t].account, t)
              /\ AppendedTo(txs[t].to_account, t)]_vars

(* C1 (amended): a successful transfer between two different accounts      *)
(* moves exactly the amount and is appended once to each history; a        *)
(* successful transfer from an account to itself leaves its balance as it  *)
(* was and is appended to its history twice.                               *)
C1_TransferMovesAmount ==
    [][\A t \in TxIds :
          TransferDone(t) =>
              LET src == txs[t].account
                  dst == txs[t].to_account
                  amount == txs[t].amount
              IN  /\ amount > 0
                  /\ AppendedTo(src, t)
                  /\ AppendedTo(dst, t)
                  /\ \A a \in Accounts \ {src, dst} :
                        balance'[a] = balance[a] /\ transactions'[a] = transactions[a]
                  /\ src # dst =>
                        /\ balance'[src] = balance[src] - amount
                        /\ balance'[dst] = balance[dst] + amount
                        /\ transactions'[src] = Append(transactions[src], t)
                        /\ transactions'[dst] = Append(transactions[dst], t)
                  /\ src = dst =>
                        /\ balance'[src] = balance[src]
                        /\ transactions'[src] = Append(Append(transactions[src], t), t)]_vars

C1_Witness ==
    /\ last.op = "process"
    /\ last.err = Ok
    /\ txs[last.target].type = "Transfer"
    /\ txs[last.target].account # txs[last.target].to_account
    /\ kind[txs[last.target].account] # kind[txs[last.target].to_account]

(* C2: a transfer that fails (amount <= 0, or any rule of the source's     *)
(* withdraw rejects it) deposits nothing and records nothing: balances,    *)
(* histories and monthly_withdraw counters are as before the call.         *)
C2_FailedTransferNoEffect ==
    [][\A t \in TxIds :
          (Called("process", t) /\ txs[t].type = "Transfer") =>
              /\ WithdrawRejected(txs[t].account, txs[t].amount) => Raised
              /\ Raised => AccountsUntouched]_vars

C2_Witness ==
    /\ last.op = "process"
    /\ txs[last.target].type = "Transfer"
    /\ last.err \in {ErrInsufficient, ErrMinBalance, ErrMonthLimit}

(* C3: once a transaction is Applied, a later process_transaction call on  *)
(* it changes no balance and appends to no history.                        *)
C3_ProcessedAtMostOnce ==
    [][\A t \in TxIds :
          (Applied(t) /\ Called("process", t)) =>
              /\ balance' = balance
              /\ transactions' = transactions]_vars

(* C4: a SavingAccount whose balance is at or above min_balance stays at   *)
(* or above it through every call.                                         *)
C4_SavingFloorKept ==
    [][\A a \in Accounts :
          (kind[a] = "SavingAccount" /\ balance[a] >= min_balance[a]) =>
              balance'[a] >= min_balance[a]]_vars

C4_Witness ==
    \E a \in Accounts :
        /\ kind[a] = "SavingAccount"
        /\ balance[a] = min_balance[a]
        /\ last.op = "process"
        /\ last.err = Ok
        /\ txs[last.target].type \in {"Expense", "Transfer"}
        /\ txs[last.target].account = a

(* C5: for an ExpensesAccount with month_limit >= 0, monthly_withdraw      *)
(* never exceeds month_limit, and no call decreases monthly_withdraw.      *)
C5_MonthlyLimitKept ==
    /\ [](\A a \in Accounts :
            (kind[a] = "ExpensesAccount" /\ month_limit[a] >= 0) =>
                monthly_withdraw[a] <= month_limit[a])
    /\ [][\A a \in Accounts :
            kind[a] = "ExpensesAccount" => monthly_withdraw'[a] >= monthly_withdraw[a]]_vars

C5_Witness ==
    \E a \in Accounts :
        /\ kind[a] = "ExpensesAccount"
        /\ monthly_withdraw[a] = month_limit[a]
        /\ monthly_withdraw[a] > 0
        /\ last.err = ErrMonthLimit
        /\ \/ last.op = "withdraw" /\ last.target = a
           \/ last.op = "process" /\ txs[last.target].account = a

(* C6 (as stated): deposit and withdraw of an amount <= 0 fail with        *)
(* "Amount must be positive" on every account variant in every state and   *)
(* leave the balance unchanged.                                            *)
C6_NonPositiveIsInvalidAmount ==
    [][\A a \in Accounts :
          ((Called("deposit", a) \/ Called("withdraw", a)) /\ last'.amount <= 0) =>
              /\ last'.err = ErrAmount
              /\ balance' = balance]_vars

(* C6 (amended): deposit and withdraw of an amount <= 0 always fail and    *)
(* leave the balance unchanged; the error is "Amount must be positive",    *)
(* except that SavingAccount.withdraw raises the minimum-balance error     *)
(* when balance - amount < min_balance and ExpensesAccount.withdraw the    *)
(* monthly-limit error when monthly_withdraw + amount > month_limit.       *)
C6_NonPositiveRejected ==
    [][\A a \in Accounts :
          /\ (Called("deposit", a) /\ last'.amount <= 0) =>
                /\ last'.err = ErrAmount
                /\ AccountsUntouched
          /\ (Called("withdraw", a) /\ last'.amount <= 0) =>
                /\ AccountsUntouched
                /\ last'.err = IF BelowFloor(a, last'.amount) THEN ErrMinBalance
                               ELSE IF OverLimit(a, last'.amount) THEN ErrMonthLimit
                               ELSE ErrAmount]_vars

C6_Witness ==
    /\ last.op = "withdraw"
    /\ last.amount <= 0
    /\ last.err = ErrAmount
    /\ kind[last.target] = "SavingAccount"

(* C7: SavingAccount.withdraw(amount) raises the minimum-balance error and *)
(* leaves the balance unchanged whenever balance - amount < min_balance.   *)
C7_BelowFloorRejected ==
    [][\A a \in Accounts :
          (Called("withdraw", a) /\ BelowFloor(a, last'.amount)) =>
              /\ last'.err = ErrMinBalance
              /\ balance' = balance]_vars

C7_Witness ==
    /\ last.op = "withdraw"
    /\ kind[last.target] = "SavingAccount"
    /\ last.err = ErrMinBalance
    /\ last.amount > 0
    /\ last.amount <= balance[last.target]

(* C8 (as stated): SavingAccount.withdraw(amount) returns normally         *)
(* whenever balance - amount = min_balance, and the balance is then        *)
(* min_balance.                                                            *)
C8_ExactFloorAlwaysSucceeds ==
    [][\A a \in Accounts :
          (/\ Called("withdraw", a)
           /\ kind[a] = "SavingAccount"
           /\ balance[a] - last'.amount = min_balance[a]) =>
              /\ last'.err = Ok
              /\ balance'[a] = min_balance[a]]_vars

(* C8 (amended): SavingAccount.withdraw(amount) returns normally whenever  *)
(* balance - amount = min_balance and 0 < amount <= balance, and the       *)
(* balance is then min_balance; with amount <= 0 it raises "Amount must be *)
(* positive" and with amount > balance "Insufficient balance".             *)
C8_ExactFloorSucceeds ==
    [][\A a \in Accounts :
          (/\ Called("withdraw", a)
           /\ kind[a] = "SavingAccount"
           /\ balance[a] - last'.amount = min_balance[a]) =>
              LET amount == last'.amount IN
              /\ (amount > 0 /\ amount <= balance[a]) =>
                    last'.err = Ok /\ balance'[a] = min_balance[a]
              /\ amount <= 0 => last'.err = ErrAmount /\ balance' = balance
              /\ amount > balance[a] => last'.err = ErrInsufficient /\ balance' = balance]_vars

C8_Witness ==
    /\ last.op = "withdraw"
    /\ kind[last.target] = "SavingAccount"
    /\ last.err = Ok
    /\ balance[last.target] = min_balance[last.target]

(* C9 (as stated): ExpensesAccount.withdraw(amount) succeeds whenever      *)
(* monthly_withdraw + amount <= month_limit, taking amount off the balance *)
(* and adding it to monthly_withdraw; otherwise it raises the monthly      *)
(* limit error and changes neither.                                        *)
C9_WithinLimitAlwaysSucceeds ==
    [][\A a \in Accounts :
          (Called("withdraw", a) /\ kind[a] = "ExpensesAccount") =>
              LET amount == last'.amount IN
              /\ monthly_withdraw[a] + amount <= month_limit[a] =>
                    /\ last'.err = Ok
                    /\ balance'[a] = balance[a] - amount
                    /\ monthly_withdraw'[a] = monthly_withdraw[a] + amount
              /\ monthly_withdraw[a] + amount > month_limit[a] =>
                    /\ last'.err = ErrMonthLimit
                    /\ balance' = balance
                    /\ monthly_withdraw' = monthly_withdraw]_vars

(* C9 (amended): ExpensesAccount.withdraw(amount) succeeds whenever        *)
(* monthly_withdraw + amount <= month_limit and 0 < amount <= balance,     *)
(* taking amount off the balance and adding it to monthly_withdraw; with   *)
(* monthly_withdraw + amount > month_limit it raises the monthly-limit     *)
(* error; within the limit but with amount <= 0 or amount > balance it     *)
(* raises the base error; every failure changes neither balance nor        *)
(* counter.                                                                *)
C9_WithinLimitSucceeds ==
    [][\A a \in Accounts :
          (Called("withdraw", a) /\ kind[a] = "ExpensesAccount") =>
              LET amount == last'.amount
                  within == monthly_withdraw[a] + amount <= month_limit[a]
              IN
              /\ (within /\ amount > 0 /\ amount <= balance[a]) =>
                    /\ last'.err = Ok
                    /\ balance'[a] = balance[a] - amount
                    /\ monthly_withdraw'[a] = monthly_withdraw[a] + amount
              /\ ~within => last'.err = ErrMonthLimit
              /\ (within /\ amount <= 0) => last'.err = ErrAmount
              /\ (within /\ amount > 0 /\ amount > balance[a]) => last'.err = ErrInsufficient
              /\ Raised => balance' = balance /\ monthly_withdraw' = monthly_withdraw]_vars

C9_Witness ==
    /\ last.op = "withdraw"
    /\ kind[last.target] = "ExpensesAccount"
    /\ last.err = Ok
    /\ monthly_withdraw[last.target] = last.amount
    /\ monthly_withdraw[last.target] < month_limit[last.target]

(* C10 (as stated): the spend recorded for a budget category never gets    *)
(* smaller, whatever is called.                                            *)
C10_SpendOnlyIncreases ==
    [][\A c \in DOMAIN spending :
          c \in DOMAIN spending' /\ spending'[c] >= spending[c]]_vars

(* C10 (amended): the spend recorded for a category never gets smaller     *)
(* through get_budget_status, through add_expense with an amount >= 0, or  *)
(* through any call on another category; set_budget_limit on the category  *)
(* puts it back to 0 and add_expense with a negative amount lowers it by   *)
(* that amount.                                                            *)
C10_SpendIncreasesUnlessResetOrNegative ==
    [][\A c \in DOMAIN spending :
          /\ c \in DOMAIN spending'
          /\ Called("set_budget_limit", c) => spending'[c] = 0
          /\ (Called("add_expense", c) /\ last'.amount < 0) =>
                spending'[c] = spending[c] + last'.amount
          /\ ~(\/ Called("set_budget_limit", c)
               \/ Called("add_expense", c) /\ last'.amount < 0) =>
                spending'[c] >= spending[c]]_vars

C10_Witness ==
    /\ last.op = "add_expense"
    /\ last.err = Ok
    /\ last.amount > 0
    /\ spending[last.target] > last.amount

(* C11: add_expense on a registered category returns normally; it prints   *)
(* exactly one warning when the category's spend after the call is greater *)
(* than its limit, whether or not the spend was over the limit before, and *)
(* none when the spend after the call is at or below the limit.            *)
C11_WarningPerCallOverLimit ==
    [][\A c \in DOMAIN spending :
          Called("add_expense", c) =>
              /\ last'.err = Ok
              /\ spending'[c] = spending[c] + last'.amount
              /\ spending'[c] > category_limits'[c] => last'.warnings = 1
              /\ spending'[c] <= category_limits'[c] => last'.warnings = 0]_vars

C11_Witness ==
    /\ last.op = "add_expense"
    /\ last.err = Ok
    /\ last.warnings = 1
    /\ spending[last.target] - last.amount > category_limits[last.target]

(* C12: add_expense on a category that was never set raises "Category not  *)
(* found", prints no warning, and leaves every limit and every spend as it *)
(* was; the category is not created.                                       *)
C12_UnknownCategoryRejected ==
    [][\A c \in Categories \ DOMAIN spending :
          Called("add_expense", c) =>
              /\ last'.err = ErrCategory
              /\ last'.warnings = 0
              /\ spending' = spending
              /\ category_limits' = category_limits]_vars

C12_Witness ==
    /\ last.op = "add_expense"
    /\ last.err = ErrCategory
    /\ last.target \notin DOMAIN spending
    /\ last.target \notin DOMAIN category_limits
    /\ DOMAIN spending # {}

(* C13: set_budget_limit(category, limit) sets the category's limit to     *)
(* limit and its spend to 0, whether or not the category existed, and      *)
(* leaves the limit and spend of every other category unchanged.           *)
C13_SetLimitFrame ==
    [][\A c \in Categories :
          Called("set_budget_limit", c) =>
              /\ DOMAIN spending' = DOMAIN spending \cup {c}
              /\ DOMAIN category_limits' = DOMAIN category_limits \cup {c}
              /\ category_limits'[c] = last'.amount
              /\ spending'[c] = 0
              /\ \A k \in DOMAIN spending \ {c} : spending'[k] = spending[k]
              /\ \A k \in DOMAIN category_limits \ {c} :
                    category_limits'[k] = category_limits[k]]_vars

C13_Witness ==
    /\ last.op = "set_budget_limit"
    /\ spending[last.target] = 0
    /\ category_limits[last.target] = last.amount
    /\ \E k \in DOMAIN spending : k # last.target /\ spending[k] > 0

(* A withdraw of the amount that the call before it deposited into the     *)
(* same account, where the variant's own rule does not reject it           *)
RoundTripStep(a) ==
    /\ last.op = "deposit"
    /\ last.target = a
    /\ last.err = Ok
    /\ last.amount > 0
    /\ Called("withdraw", a)
    /\ last'.amount = last.amount
    /\ ~BelowFloor(a, last.amount)
    /\ ~OverLimit(a, last.amount)

(* C14 (as stated): for every account variant and every positive amount,   *)
(* deposit(amount) followed by withdraw(amount) returns the balance to its *)
(* value before the deposit, provided the withdrawal does not violate the  *)
(* variant's constraint.                                                   *)
C14_RoundTripAnyBalance ==
    [][\A a \in Accounts :
          RoundTripStep(a) => balance'[a] = last.before]_vars

(* C14 (amended): the same, for an account whose balance before the        *)
(* deposit is not negative: the withdraw returns normally and the balance  *)
(* is back at its value before the deposit; with a negative balance before *)
(* the deposit the withdraw raises "Insufficient balance" and the balance  *)
(* stays at its value after the deposit.                                   *)
C14_RoundTrip ==
    [][\A a \in Accounts :
          RoundTripStep(a) =>
              /\ last.before >= 0 =>
                    /\ last'.err = Ok
                    /\ balance'[a] = last.before
              /\ last.before < 0 =>
                    /\ last'.err = ErrInsufficient
                    /\ balance'[a] = last.before + last.amount]_vars

C14_Witness ==
    /\ last.op = "withdraw"
    /\ last.err = Ok
    /\ last.amount > 0
    /\ balance[last.target] = 0
    /\ kind[last.target] = "Account"

(* The main program has processed transaction t, the transactions up to t  *)
(* carrying the amounts the source gives them                              *)
MainProcessed(t) ==
    /\ last.op = "process"
    /\ last.target = t
    /\ txs[1].amount = IncomeAmount
    /\ t >= 2 => txs[2].amount = ExpenseAmount
    /\ t >= 3 => txs[3].amount = TransferAmount

(* C15: from SavingAccount(5000, min_balance 1000) and                     *)
(* ExpensesAccount(3000, month_limit 2000), Income(2000), Expense(500) and *)
(* Transfer(1000) all succeed; the saving balance is 7000, 6500 and 5500   *)
(* in turn, the expenses account ends at 4000 with monthly_withdraw 0.     *)
C15_MainScenario ==
    /\ MainProcessed(1) =>
          /\ last.err = Ok
          /\ balance[1] = 7000
          /\ balance[2] = 3000
    /\ MainProcessed(2) =>
          /\ last.err = Ok
          /\ balance[1] = 6500
          /\ balance[2] = 3000
    /\ MainProcessed(3) =>
          /\ last.err = Ok
          /\ balance[1] = 5500
          /\ balance[2] = 4000
          /\ monthly_withdraw[2] = 0
          /\ transactions[1] = <<1, 2, 3>>
          /\ transactions[2] = <<3>>

C15_Witness ==
    /\ MainProcessed(3)
    /\ last.err = Ok
    /\ balance[1] = 5500
    /\ balance[2] = 4000

(* C16: an IncomeTransaction or ExpenseTransaction that raises (amount <=  *)
(* 0, or a withdraw rule of the account rejects it) leaves balances,       *)
(* histories and monthly_withdraw counters as they were; one that returns  *)
(* changes the balance of its account by exactly +amount (Income) or       *)
(* -amount (Expense) and is appended once, as the last element, to that    *)
(* account's history, the earlier entries keeping their order.             *)
C16_IncomeExpenseAtomic ==
    [][\A t \in DOMAIN txs :
          (Called("process", t) /\ txs[t].type \in {"Income", "Expense"}) =>
              LET a == txs[t].account
                  amount == txs[t].amount
                  delta == IF txs[t].type = "Income" THEN amount ELSE -amount
              IN  /\ amount <= 0 => Raised
                  /\ (txs[t].type = "Expense" /\ WithdrawRejected(a, amount)) => Raised
                  /\ Raised => AccountsUntouched
                  /\ ~Raised =>
                        /\ balance'[a] = balance[a] + delta
                        /\ transactions'[a] = Append(transactions[a], t)
                        /\ \A b \in Accounts \ {a} :
                              /\ balance'[b] = balance[b]
                              /\ transactions'[b] = transactions[b]
                              /\ monthly_withdraw'[b] = monthly_withdraw[b]]_vars

C16_Witness ==
    /\ last.op = "process"
    /\ last.err = Ok
    /\ txs[last.target].type = "Expense"
    /\ Len(transactions[txs[last.target].account]) = 2
    /\ transactions[txs[last.target].account][1] # last.target
    /\ transactions[txs[last.target].account][2] = last.target

(* C17: in SavingAccount.withdraw and ExpensesAccount.withdraw the         *)
(* variant's check comes first: when balance - amount < min_balance, resp. *)
(* monthly_withdraw + amount > month_limit, the error is the variant's     *)
(* even if amount <= 0 or amount > balance; "Amount must be positive" and  *)
(* "Insufficient balance" are raised only when the variant's condition     *)
(* does not hold.                                                          *)
C17_VariantCheckFirst ==
    [][\A a \in Accounts :
          (Called("withdraw", a) /\ kind[a] \in {"SavingAccount", "ExpensesAccount"}) =>
              LET amount == last'.amount IN
              /\ BelowFloor(a, amount) => last'.err = ErrMinBalance
              /\ OverLimit(a, amount) => last'.err = ErrMonthLimit
              /\ last'.err \in {ErrAmount, ErrInsufficient} =>
                    ~BelowFloor(a, amount) /\ ~OverLimit(a, amount)
              /\ (~BelowFloor(a, amount) /\ ~OverLimit(a, amount) /\ amount <= 0) =>
                    last'.err = ErrAmount
              /\ (~BelowFloor(a, amount) /\ ~OverLimit(a, amount)
                    /\ amount > 0 /\ amount > balance[a]) =>
                    last'.err = ErrInsufficient]_vars

C17_Witness ==
    /\ last.op = "withdraw"
    /\ kind[last.target] = "ExpensesAccount"
    /\ last.err = ErrMonthLimit
    /\ last.amount > balance[last.target]
    /\ month_limit[last.target] >= 0

Total(bal) == bal[1] + bal[2]

(* C18: the sum of all balances is the same before and after every         *)
(* TransferTransaction.process_transaction call, whether it returns or     *)
(* raises and also from an account to itself; the sum grows by the amount  *)
(* on a successful income or deposit, shrinks by the amount on a           *)
(* successful expense or withdraw, and does not change otherwise.          *)
C18_TransfersConserveMoney ==
    [][/\ \A t \in DOMAIN txs :
            Called("process", t) =>
                Total(balance') =
                    IF Raised \/ txs[t].type = "Transfer" THEN Total(balance)
                    ELSE IF txs[t].type = "Income" THEN Total(balance) + txs[t].amount
                    ELSE Total(balance) - txs[t].amount
       /\ \A a \in Accounts :
            /\ Called("deposit", a) =>
                  Total(balance') = IF Raised THEN Total(balance)
                                    ELSE Total(balance) + last'.amount
            /\ Called("withdraw", a) =>
                  Total(balance') = IF Raised THEN Total(balance)
                                    ELSE Total(balance) - last'.amount
       /\ last'.op = "new" => Total(balance') = Total(balance)]_vars

C18_Witness ==
    /\ last.op = "process"
    /\ last.err = Ok
    /\ txs[last.target].type = "Transfer"
    /\ txs[last.target].account = txs[last.target].to_account
    /\ kind[txs[last.target].account] = "ExpensesAccount"

Accessors ==
    {"get_balance", "add_transaction", "get_transactions", "set_password",
     "check_password"}

(* C19: no account is overdrawn: where every account starts with a balance *)
(* of at least 0, every balance is at least 0 in every reachable state     *)
(* under any sequence of deposits, withdrawals, processed transactions and *)
(* accessor calls; a balance changes only in a deposit, a withdraw or the  *)
(* processing of a transaction, which calls them; get_balance,             *)
(* add_transaction, get_transactions, set_password and check_password      *)
(* leave every balance unchanged.                                          *)
C19_NeverOverdrawn ==
    /\ [](\A a \in Accounts : balance[a] >= 0)
    /\ [][/\ balance' # balance => last'.op \in {"deposit", "withdraw", "process"}
          /\ last'.op \in Accessors => balance' = balance
          /\ \A a \in Accounts :
               balance'[a] # balance[a] =>
                   \/ Called("deposit", a) \/ Called("withdraw", a)
                   \/ /\ last'.op = "process"
                      /\ a \in {txs[last'.target].account,
                                 txs[last'.target].to_account}]_vars

C19_Witness ==
    /\ last.op = "check_password"
    /\ last.ret
    /\ last.arg = "pass2"
    /\ balance[last.target] = 0
    /\ transactions[last.target] # <<>>

====
